---- MODULE Spec2Model ----
(***************************************************************************)
(* A model of public/script.js: the Markdown-to-HTML converter             *)
(* (markdownToHtml with its helpers escapeHtml and processInline) and the  *)
(* chat form's submit handler.                                             *)
(*                                                                         *)
(* A JavaScript string is a sequence of one-character strings, so that     *)
(* every regular expression of the source is computed position by          *)
(* position, as the regex engine does.                                     *)
(***************************************************************************)
EXTENDS Integers, Sequences, FiniteSets, TLC

\* ------------------------------------------------------------ bounds

\* The most lines an input text of the converter is made of.
MaxLines == 3

\* The most submissions the chat form accepts in one run.
MaxSubmits == 3

\* The most characters of a one-line input text made of inline delimiters.
MaxInlineLen == 5

\* ------------------------------------------------- character classes

\* \s of a JavaScript regular expression, and the characters trim() strips.
WhiteSpace == {" ", "\t", "\n", "\r", "\f"}

\* The characters '.' does not match.
LineTerminators == {"\n", "\r"}

\* \d
Digits == {"0", "1", "2", "3", "4", "5", "6", "7", "8", "9"}

\* \w
WordChars ==
    {"a", "b", "c", "d", "e", "f", "g", "h", "i", "j", "k", "l", "m",
     "n", "o", "p", "q", "r", "s", "t", "u", "v", "w", "x", "y", "z",
     "A", "B", "C", "D", "E", "F", "G", "H", "I", "J", "K", "L", "M",
     "N", "O", "P", "Q", "R", "S", "T", "U", "V", "W", "X", "Y", "Z",
     "_"} \cup Digits

\* ------------------------------------------------------ string helpers

Min(S) == CHOOSE x \in S : \A y \in S : x <= y

\* s.startsWith(pat, i-1): pat occurs in s at (1-based) position i.
HasAt(s, pat, i) ==
    /\ i >= 1
    /\ i + Len(pat) - 1 <= Len(s)
    /\ \A k \in 1..Len(pat) : s[i + k - 1] = pat[k]

\* The first position >= from where pat occurs in s, 0 when there is none.
IndexOfFrom(s, pat, from) ==
    LET C == {i \in from..(Len(s) - Len(pat) + 1) : HasAt(s, pat, i)}
    IN  IF C = {} THEN 0 ELSE Min(C)

\* The length of the longest run of characters of S that starts at s[i].
RECURSIVE RunLen(_, _, _)
RunLen(s, i, S) ==
    IF i <= Len(s) /\ s[i] \in S THEN 1 + RunLen(s, i + 1, S) ELSE 0

\* The length of the longest run of characters outside S that starts at s[i].
RECURSIVE RunLenNot(_, _, _)
RunLenNot(s, i, S) ==
    IF i <= Len(s) /\ s[i] \notin S THEN 1 + RunLenNot(s, i + 1, S) ELSE 0

\* s.substring(i-1): s from position i on.
From(s, i) == SubSeq(s, i, Len(s))

\* String.prototype.trim
Trim(s) ==
    LET lead == RunLen(s, 1, WhiteSpace)
        Last == {i \in 1..Len(s) : s[i] \notin WhiteSpace}
    IN  IF Last = {} THEN <<>>
        ELSE SubSeq(s, lead + 1, CHOOSE i \in Last : \A j \in Last : j <= i)

\* s.split('\n'): at least one piece, the empty string splits to [''].
RECURSIVE SplitLinesFrom(_, _)
SplitLinesFrom(s, i) ==
    LET n == RunLenNot(s, i, {"\n"})
    IN  IF i + n > Len(s) THEN << SubSeq(s, i, i + n - 1) >>
        ELSE << SubSeq(s, i, i + n - 1) >> \o SplitLinesFrom(s, i + n + 1)

SplitLines(s) == SplitLinesFrom(s, 1)

\* Array.prototype.join('')
RECURSIVE JoinAll(_)
JoinAll(parts) ==
    IF parts = <<>> THEN <<>> ELSE Head(parts) \o JoinAll(Tail(parts))

\* ------------------------------------------------------ literal strings

\* The backtick, U+0060, which a TLA+ string literal cannot hold.
Backtick == "U+0060"

Fence == <<Backtick, Backtick, Backtick>>

OpenTag(name) == <<"<">> \o name \o <<">">>
CloseTag(name) == <<"<", "/">> \o name \o <<">">>

N_p == <<"p">>
N_br == <<"b", "r">>
N_hr == <<"h", "r">>
N_ul == <<"u", "l">>
N_ol == <<"o", "l">>
N_li == <<"l", "i">>
N_pre == <<"p", "r", "e">>
N_code == <<"c", "o", "d", "e">>
N_strong == <<"s", "t", "r", "o", "n", "g">>
N_em == <<"e", "m">>

\* The decimal digit of a heading level, as the template literal prints it.
DigitOf(n) ==
    CASE n = 1 -> "1" [] n = 2 -> "2" [] n = 3 -> "3"
      [] n = 4 -> "4" [] n = 5 -> "5" [] n = 6 -> "6"

N_h(level) == <<"h", DigitOf(level)>>

\* ---------------------------------------------------------- escapeHtml

\* str.replace(/c/g, rep) for a one-character pattern c.
RECURSIVE ReplaceChar(_, _, _)
ReplaceChar(s, c, rep) ==
    IF s = <<>> THEN <<>>
    ELSE (IF Head(s) = c THEN rep ELSE <<Head(s)>>) \o ReplaceChar(Tail(s), c, rep)

E_amp == <<"&", "a", "m", "p", ";">>
E_lt == <<"&", "l", "t", ";">>
E_gt == <<"&", "g", "t", ";">>
E_quot == <<"&", "q", "u", "o", "t", ";">>
E_apos == <<"&", "#", "0", "3", "9", ";">>

\* A slip: '<' is left alone.
escapeHtmlNoLt(str) ==
    ReplaceChar(ReplaceChar(ReplaceChar(ReplaceChar(str,
        "&", E_amp), ">", E_gt), "\"", E_quot), "'", E_apos)

escapeHtml(str) ==
    ReplaceChar(ReplaceChar(ReplaceChar(ReplaceChar(ReplaceChar(str,
        "&", E_amp), "<", E_lt), ">", E_gt), "\"", E_quot), "'", E_apos)

\* -------------------------------------------------------- processInline

\* /d{n}([^d]+)d{n}/ tried at position i of s: the position of the match's
\* last character, 0 when it does not match there.  The class [^d]+ cannot
\* cross a d, so the only candidate content is the whole run of non-d
\* characters after the opening delimiter.
\* A slip: the end of the line closes a span that nothing else closes.
SpanMatchEndUnclosed(s, i, d, n) ==
    LET delim == [k \in 1..n |-> d]
        r == RunLenNot(s, i + n, {d})
    IN  IF HasAt(s, delim, i) /\ r >= 1 /\ HasAt(s, delim, i + n + r)
        THEN i + 2 * n + r - 1
        ELSE IF HasAt(s, delim, i) /\ r >= 1 /\ i + n + r > Len(s)
        THEN Len(s)
        ELSE 0

SpanMatchEnd(s, i, d, n) ==
    LET delim == [k \in 1..n |-> d]
        r == RunLenNot(s, i + n, {d})
    IN  IF HasAt(s, delim, i) /\ r >= 1 /\ HasAt(s, delim, i + n + r)
        THEN i + 2 * n + r - 1
        ELSE 0

\* s.replace(/d{n}([^d]+)d{n}/g, '<name>$1</name>'), scanning from i.
RECURSIVE ReplaceSpansFrom(_, _, _, _, _)
ReplaceSpansFrom(s, i, d, n, name) ==
    IF i > Len(s) THEN <<>>
    ELSE LET e == SpanMatchEnd(s, i, d, n)
         IN  IF e = 0
             THEN <<s[i]>> \o ReplaceSpansFrom(s, i + 1, d, n, name)
             ELSE OpenTag(name) \o SubSeq(s, i + n, e - n) \o CloseTag(name)
                  \o ReplaceSpansFrom(s, e + 1, d, n, name)

ReplaceSpans(s, d, n, name) == ReplaceSpansFrom(s, 1, d, n, name)

\* A slip: the line is escaped a second time.
processInlineEscapedTwice(line) ==
    ReplaceSpans(
        ReplaceSpans(
            ReplaceSpans(escapeHtml(escapeHtml(line)), "*", 2, N_strong),
            "*", 1, N_em),
        Backtick, 1, N_code)

processInline(line) ==
    ReplaceSpans(
        ReplaceSpans(
            ReplaceSpans(escapeHtml(line), "*", 2, N_strong),
            "*", 1, N_em),
        Backtick, 1, N_code)

\* ----------------------------------------------------------- regex matches

\* What String.prototype.match returns: null, or the array of the groups.
NoMatch == [matched |-> FALSE, groups |-> <<>>]
Match(gs) == [matched |-> TRUE, groups |-> gs]

\* (.*) tried at position i: '.' stops at a line terminator.
DotStar(s, i) == SubSeq(s, i, i + RunLenNot(s, i, LineTerminators) - 1)

\* line.match(/^\s*(#{1,6})\s+(.*)/)
\* More than six '#' do not match: after six of them \s+ meets a '#'.
HeadingMatch(line) ==
    LET ws == RunLen(line, 1, WhiteSpace)
        h  == RunLen(line, ws + 1, {"#"})
        w2 == RunLen(line, ws + h + 1, WhiteSpace)
    IN  IF h >= 1 /\ h <= 6 /\ w2 >= 1
        THEN Match(<< SubSeq(line, ws + 1, ws + h), DotStar(line, ws + h + w2 + 1) >>)
        ELSE NoMatch

\* line.match(/^\s*(\-\-\-|\*\*\*|\_\_\_)\s*$/)
RuleMatch(line) ==
    LET ws == RunLen(line, 1, WhiteSpace)
        m  == SubSeq(line, ws + 1, ws + 3)
    IN  IF /\ ws + 3 <= Len(line)
           /\ m \in {<<"-", "-", "-">>, <<"*", "*", "*">>, <<"_", "_", "_">>}
           /\ ws + 3 + RunLen(line, ws + 4, WhiteSpace) = Len(line)
        THEN Match(<< m >>)
        ELSE NoMatch

\* line.match(/^\s*[\-\*]\s+(.*)/)
UlMatch(line) ==
    LET ws == RunLen(line, 1, WhiteSpace)
        w2 == RunLen(line, ws + 2, WhiteSpace)
    IN  IF ws + 1 <= Len(line) /\ line[ws + 1] \in {"-", "*"} /\ w2 >= 1
        THEN Match(<< DotStar(line, ws + 1 + w2 + 1) >>)
        ELSE NoMatch

\* line.match(/^\s*\d+\.\s+(.*)/)
OlMatch(line) ==
    LET ws == RunLen(line, 1, WhiteSpace)
        d  == RunLen(line, ws + 1, Digits)
        w2 == RunLen(line, ws + d + 2, WhiteSpace)
    IN  IF /\ d >= 1
           /\ ws + d + 1 <= Len(line)
           /\ line[ws + d + 1] = "."
           /\ w2 >= 1
        THEN Match(<< DotStar(line, ws + d + 1 + w2 + 1) >>)
        ELSE NoMatch

\* block.match(/```(\w*)\n/): the leftmost fence whose word run is followed
\* by a newline; the expression is not anchored at the start of the block.
LangMatch(block) ==
    LET C == {i \in 1..Len(block) :
                 /\ HasAt(block, Fence, i)
                 /\ HasAt(block, <<"\n">>, i + 3 + RunLen(block, i + 3, WordChars))}
    IN  IF C = {} THEN NoMatch
        ELSE LET i == Min(C)
             IN  Match(<< SubSeq(block, i + 3, i + 2 + RunLen(block, i + 3, WordChars)) >>)

\* block.replace(/```\w*\n?/, ''): the first fence, its word run and at most
\* one newline are removed.
StripOpeningFence(block) ==
    LET i == IndexOfFrom(block, Fence, 1)
        w == RunLen(block, i + 3, WordChars)
        nl == IF HasAt(block, <<"\n">>, i + 3 + w) THEN 1 ELSE 0
    IN  IF i = 0 THEN block
        ELSE SubSeq(block, 1, i - 1) \o From(block, i + 3 + w + nl)

\* s.replace(/```$/, ''): a fence at the very end is removed.
StripClosingFence(s) ==
    IF HasAt(s, Fence, Len(s) - 2) THEN SubSeq(s, 1, Len(s) - 3) ELSE s

\* ----------------------------------------------------------- segmentation

\* text.split(/(```[\s\S]*?```)/) from position p on.  The leftmost match
\* starts at the first fence that has a later fence at least three characters
\* on; the lazy [\s\S]*? ends it at the first such fence.  The capturing group
\* puts each match into the array, between the pieces around it.
RECURSIVE SplitFencesFrom(_, _)
SplitFencesFrom(s, p) ==
    LET i == IndexOfFrom(s, Fence, p)
        j == IF i = 0 THEN 0 ELSE IndexOfFrom(s, Fence, i + 3)
    IN  IF j = 0 THEN << From(s, p) >>
        ELSE << SubSeq(s, p, i - 1), SubSeq(s, i, j + 2) >> \o SplitFencesFrom(s, j + 3)

SplitFences(s) == SplitFencesFrom(s, 1)

\* ------------------------------------------------------------ completions

\* How an evaluation ends: with a value, or by throwing.
Normal(v) == [type |-> "normal", value |-> v]
Throw(e) == [type |-> "throw", value |-> e]

\* -------------------------------------------------------- code block branch

S_class == <<" ", "c", "l", "a", "s", "s", "=", "\"",
             "l", "a", "n", "g", "u", "a", "g", "e", "-">>

\* A slip: langMatch[1] is read without the test for null.
CodeLangUnguarded(block) ==
    LET langMatch == LangMatch(block)
    IN  IF langMatch.matched THEN Normal(langMatch.groups[1])
        ELSE Throw("TypeError")

\* const lang = langMatch ? langMatch[1] : '';
CodeLang(block) ==
    LET langMatch == LangMatch(block)
    IN  IF langMatch.matched THEN Normal(langMatch.groups[1]) ELSE Normal(<<>>)

\* block.replace(/```\w*\n?/, '').replace(/```$/, '')
CodeText(block) == StripClosingFence(StripOpeningFence(block))

\* lang ? ` class="language-${lang}"` : ''
LangClass(lang) == IF lang # <<>> THEN S_class \o lang \o <<"\"">> ELSE <<>>

\* A slip: the code is run through processInline like a line of text.
CodeBlockHtmlInline(block) ==
    LET lang == CodeLang(block)
    IN  IF lang.type = "throw" THEN lang
        ELSE Normal(OpenTag(N_pre) \o <<"<">> \o N_code \o LangClass(lang.value)
                    \o <<">">> \o processInline(Trim(CodeText(block)))
                    \o CloseTag(N_code) \o CloseTag(N_pre))

\* The branch of a block that starts with a fence.
CodeBlockHtml(block) ==
    LET lang == CodeLang(block)
    IN  IF lang.type = "throw" THEN lang
        ELSE Normal(OpenTag(N_pre) \o <<"<">> \o N_code \o LangClass(lang.value)
                    \o <<">">> \o escapeHtml(Trim(CodeText(block)))
                    \o CloseTag(N_code) \o CloseTag(N_pre))

\* -------------------------------------------------------- line state machine

\* The name of the list tag inList holds.
ListTag(l) == IF l = "ul" THEN N_ul ELSE N_ol

\* The loop's variables before the first line.
LoopInit == [resultHtml |-> <<>>, inList |-> "null", paragraphContent |-> <<>>]

closeParagraph(st) ==
    IF st.paragraphContent # <<>>
    THEN [st EXCEPT !.resultHtml = @ \o OpenTag(N_p) \o st.paragraphContent \o CloseTag(N_p),
                    !.paragraphContent = <<>>]
    ELSE st

closeList(st) ==
    IF st.inList # "null"
    THEN [st EXCEPT !.resultHtml = @ \o CloseTag(ListTag(st.inList)),
                    !.inList = "null"]
    ELSE st

Emit(st, html) == [st EXCEPT !.resultHtml = @ \o html]

\* A slip: the heading is emitted without closing the open list.
HeadingBranchListOpen(st, hMatch) ==
    LET level == Len(hMatch.groups[1])
    IN  Emit(closeParagraph(st),
             OpenTag(N_h(level)) \o processInline(hMatch.groups[2]) \o CloseTag(N_h(level)))

HeadingBranch(st, hMatch) ==
    LET level == Len(hMatch.groups[1])
    IN  Emit(closeList(closeParagraph(st)),
             OpenTag(N_h(level)) \o processInline(hMatch.groups[2]) \o CloseTag(N_h(level)))

RuleBranch(st) == Emit(closeList(closeParagraph(st)), OpenTag(N_hr))

\* A slip: a list is opened only when none is open, whatever its kind.
ListBranchNoSwitch(st, kind, m) ==
    LET s1 == closeParagraph(st)
        s2 == IF s1.inList = "null"
              THEN [Emit(s1, OpenTag(ListTag(kind))) EXCEPT !.inList = kind]
              ELSE s1
    IN  Emit(s2, OpenTag(N_li) \o processInline(m.groups[1]) \o CloseTag(N_li))

\* A slip: the pending paragraph is not closed when a list item arrives.
ListBranchNoFlush(st, kind, m) ==
    LET s2 == IF st.inList # kind
              THEN [Emit(closeList(st), OpenTag(ListTag(kind))) EXCEPT !.inList = kind]
              ELSE st
    IN  Emit(s2, OpenTag(N_li) \o processInline(m.groups[1]) \o CloseTag(N_li))

\* The two list branches: kind is "ul" or "ol".
ListBranch(st, kind, m) ==
    LET s1 == closeParagraph(st)
        s2 == IF s1.inList # kind
              THEN [Emit(closeList(s1), OpenTag(ListTag(kind))) EXCEPT !.inList = kind]
              ELSE s1
    IN  Emit(s2, OpenTag(N_li) \o processInline(m.groups[1]) \o CloseTag(N_li))

\* A slip: the line is appended to the paragraph without the <br>.
DefaultBranchNoBreak(st, line) ==
    LET s1 == closeList(st)
    IN  IF Trim(line) # <<>>
        THEN [s1 EXCEPT !.paragraphContent = @ \o processInline(line)]
        ELSE closeParagraph(s1)

\* A slip: a blank line leaves the open list open.
DefaultBranchBlankKeepsList(st, line) ==
    IF Trim(line) # <<>>
    THEN [closeList(st) EXCEPT !.paragraphContent =
             (IF @ # <<>> THEN @ \o OpenTag(N_br) ELSE @) \o processInline(line)]
    ELSE closeParagraph(st)

DefaultBranch(st, line) ==
    LET s1 == closeList(st)
    IN  IF Trim(line) # <<>>
        THEN [s1 EXCEPT !.paragraphContent =
                 (IF @ # <<>> THEN @ \o OpenTag(N_br) ELSE @) \o processInline(line)]
        ELSE closeParagraph(s1)

\* One iteration of the loop over the lines: the first pattern that matches
\* decides.
LineStep(st, line) ==
    IF HeadingMatch(line).matched THEN HeadingBranch(st, HeadingMatch(line))
    ELSE IF RuleMatch(line).matched THEN RuleBranch(st)
    ELSE IF UlMatch(line).matched THEN ListBranch(st, "ul", UlMatch(line))
    ELSE IF OlMatch(line).matched THEN ListBranch(st, "ol", OlMatch(line))
    ELSE DefaultBranch(st, line)

\* After the loop: closeParagraph(); closeList();
LoopEnd(st) == closeList(closeParagraph(st))

\* block.trim().split('\n')
BlockLines(block) == SplitLines(Trim(block))

RECURSIVE LoopFrom(_, _, _)
LoopFrom(st, lines, i) ==
    IF i > Len(lines) THEN st ELSE LoopFrom(LineStep(st, lines[i]), lines, i + 1)

\* The branch of every other block.
OrdinaryBlockHtml(block) == LoopEnd(LoopFrom(LoopInit, BlockLines(block), 1)).resultHtml

\* block.startsWith('```')
IsCodeBlock(block) == HasAt(block, Fence, 1)

\* markdownToHtml as a function of its input; the submit handler calls it.
RECURSIVE MapBlocks(_, _)
MapBlocks(bs, i) ==
    IF i > Len(bs) THEN <<>>
    ELSE (IF IsCodeBlock(bs[i]) THEN CodeBlockHtml(bs[i]).value
          ELSE OrdinaryBlockHtml(bs[i])) \o MapBlocks(bs, i + 1)

markdownToHtml(markdown) == MapBlocks(SplitFences(markdown), 1)

\* ------------------------------------------------------------------ inputs

\* Text that holds each of the five characters escapeHtml rewrites.
Payload == <<"<", "s", "c", "r", "i", "p", "t", ">", "&", "\"", "'">>

\* The lines the input texts are made of: one per construct of the converter.
LineSamples ==
    { <<>>,                                              \* a blank line
      <<" ">>,                                           \* a whitespace-only line
      Payload,                                           \* running text
      <<"#", " ">> \o Payload,                           \* a heading
      <<"-", "-", "-">>,                                 \* a rule
      <<"-", " ">> \o Payload,                           \* an unordered item
      <<"1", ".", " ">> \o Payload,                      \* an ordered item
      Fence,                                             \* a bare fence
      Fence \o <<"j", "s">>,                             \* a fence and a language word
      Fence \o <<"j", "s", " ", "<">> \o Fence,          \* a single-line fence
      <<"*", "*", "a", "*", "*", " ", "*", "b", "*", " ", Backtick, "c", Backtick>>,
                                                         \* the three inline spans
      <<"*", "*", "a", " ", Backtick, "b">> }            \* delimiters left open

\* lines.join('\n')
RECURSIVE JoinLines(_)
JoinLines(ls) ==
    IF ls = <<>> THEN <<>>
    ELSE IF Len(ls) = 1 THEN ls[1]
    ELSE ls[1] \o <<"\n">> \o JoinLines(Tail(ls))

\* The input texts: every text of at most MaxLines sample lines.
InputTexts ==
    { JoinLines(ls) : ls \in UNION { [1..n -> LineSamples] : n \in 0..MaxLines } }

\* ------------------------------------------------------------------- state

VARIABLES
    text,               \* markdownToHtml: const text = String(markdown)
    pc,                 \* where the call of markdownToHtml stands
    blocks,             \* const blocks
    bi,                 \* the index (from 1) of the block blocks.map is at
    html,               \* the array blocks.map has built so far
    lines,              \* const lines, of the block at hand
    li,                 \* the index (from 1) of the line the loop is at
    resultHtml,         \* let resultHtml
    inList,             \* let inList: "null", "ul" or "ol"
    paragraphContent,   \* let paragraphContent
    result,             \* what markdownToHtml returned
    inputValue,         \* input.value
    inputDisabled,      \* input.disabled
    buttonDisabled,     \* submitButton.disabled
    buttonText,         \* submitButton.textContent
    chatBox,            \* the rows of chatBox, each with its message element
    calls,              \* the calls of the submit listener that got past its guard
    fetches             \* the requests sent to API_ENDPOINT, in order

mdVars == << text, pc, blocks, bi, html, lines, li, resultHtml, inList,
             paragraphContent, result >>

chatVars == << inputValue, inputDisabled, buttonDisabled, buttonText, chatBox,
               calls, fetches >>

vars == << mdVars, chatVars >>

\* The loop's three variables as one record, and back.
LoopState == [resultHtml |-> resultHtml, inList |-> inList,
              paragraphContent |-> paragraphContent]

SetLoopState(st) ==
    /\ resultHtml' = st.resultHtml
    /\ inList' = st.inList
    /\ paragraphContent' = st.paragraphContent

\* ------------------------------------------------- markdownToHtml, stepwise

\* The page as it is loaded: an empty, enabled form and an empty chat box.
PageInit ==
    /\ inputValue = <<>>
    /\ inputDisabled = FALSE
    /\ buttonDisabled = FALSE
    /\ buttonText = "Send"
    /\ chatBox = <<>>
    /\ calls = <<>>
    /\ fetches = <<>>

MdInit ==
    /\ PageInit
    /\ text \in InputTexts
    /\ pc = "split"
    /\ blocks = <<>>
    /\ bi = 1
    /\ html = <<>>
    /\ lines = <<>>
    /\ li = 1
    /\ resultHtml = <<>>
    /\ inList = "null"
    /\ paragraphContent = <<>>
    /\ result = <<>>

\* const blocks = text.split(/(```[\s\S]*?```)/);
Split ==
    /\ pc = "split"
    /\ blocks' = SplitFences(text)
    /\ bi' = 1
    /\ html' = <<>>
    /\ pc' = "block"
    /\ UNCHANGED << text, lines, li, resultHtml, inList, paragraphContent, result >>
    /\ UNCHANGED chatVars

\* The map callback on a block that starts with a fence.
CodeBlock ==
    /\ pc = "block"
    /\ bi <= Len(blocks)
    /\ IsCodeBlock(blocks[bi])
    /\ LET r == CodeBlockHtml(blocks[bi])
       IN  IF r.type = "throw"
           THEN /\ pc' = "threw"
                /\ UNCHANGED << bi, html >>
           ELSE /\ html' = Append(html, r.value)
                /\ bi' = bi + 1
                /\ pc' = "block"
    /\ UNCHANGED << text, blocks, lines, li, resultHtml, inList, paragraphContent, result >>
    /\ UNCHANGED chatVars

\* The map callback on any other block, up to the loop over its lines.
BeginLines ==
    /\ pc = "block"
    /\ bi <= Len(blocks)
    /\ ~IsCodeBlock(blocks[bi])
    /\ lines' = BlockLines(blocks[bi])
    /\ li' = 1
    /\ SetLoopState(LoopInit)
    /\ pc' = "line"
    /\ UNCHANGED << text, blocks, bi, html, result >>
    /\ UNCHANGED chatVars

\* One iteration of for (const line of lines).
ProcessLine ==
    /\ pc = "line"
    /\ li <= Len(lines)
    /\ SetLoopState(LineStep(LoopState, lines[li]))
    /\ li' = li + 1
    /\ UNCHANGED << text, pc, blocks, bi, html, lines, result >>
    /\ UNCHANGED chatVars

\* After the loop: the open tags are closed and the callback returns.
EndLines ==
    /\ pc = "line"
    /\ li > Len(lines)
    /\ SetLoopState(LoopEnd(LoopState))
    /\ html' = Append(html, LoopEnd(LoopState).resultHtml)
    /\ bi' = bi + 1
    /\ pc' = "block"
    /\ UNCHANGED << text, blocks, lines, li, result >>
    /\ UNCHANGED chatVars

\* .join(''); return html;
Join ==
    /\ pc = "block"
    /\ bi > Len(blocks)
    /\ result' = JoinAll(html)
    /\ pc' = "done"
    /\ UNCHANGED << text, blocks, bi, html, lines, li, resultHtml, inList, paragraphContent >>
    /\ UNCHANGED chatVars

MdNext == Split \/ CodeBlock \/ BeginLines \/ ProcessLine \/ EndLines \/ Join

Spec == MdInit /\ [][MdNext]_vars

\* --------------------------------------- markdownToHtml on inline delimiters

\* The characters of the one-line texts: the two delimiter characters of
\* processInline, a letter, and a character escapeHtml rewrites.
InlineChars == {"*", Backtick, "a", "<"}

\* Every text of at most MaxInlineLen of these characters.
InlineTexts == UNION { [1..n -> InlineChars] : n \in 0..MaxInlineLen }

InlineInit ==
    /\ PageInit
    /\ text \in InlineTexts
    /\ pc = "split"
    /\ blocks = <<>>
    /\ bi = 1
    /\ html = <<>>
    /\ lines = <<>>
    /\ li = 1
    /\ resultHtml = <<>>
    /\ inList = "null"
    /\ paragraphContent = <<>>
    /\ result = <<>>

SpecInline == InlineInit /\ [][MdNext]_vars

\* ------------------------------------------------------- the submit handler

ThinkingText == <<"T", "h", "i", "n", "k", "i", "n", "g", ".", ".", ".">>

SorryText ==
    <<"S", "o", "r", "r", "y", ",", " ", "n", "o", " ", "r", "e", "s", "p", "o", "n",
      "s", "e", " ", "r", "e", "c", "e", "i", "v", "e", "d", ".">>

FailedText ==
    <<"F", "a", "i", "l", "e", "d", " ", "t", "o", " ", "g", "e", "t", " ", "r", "e",
      "s", "p", "o", "n", "s", "e", " ", "f", "r", "o", "m", " ", "s", "e", "r", "v",
      "e", "r", ".">>

\* What the user may type into the input.
InputValues == { <<>>, <<" ">>, <<" ", "h", "i">> }

\* The Markdown a response may carry in its result field.
ResultTexts == { <<"#", " ", "<">>, <<"*", "a", "*">> }

\* What response.json() may resolve to: null, an object without a result, an
\* object with an empty result, an object with a Markdown result.
JsonValues ==
    { [isNull |-> TRUE, hasResult |-> FALSE, result |-> <<>>],
      [isNull |-> FALSE, hasResult |-> FALSE, result |-> <<>>],
      [isNull |-> FALSE, hasResult |-> TRUE, result |-> <<>>] }
    \cup { [isNull |-> FALSE, hasResult |-> TRUE, result |-> r] : r \in ResultTexts }

\* data && data.result
HasResult(data) == ~data.isNull /\ data.hasResult /\ data.result # <<>>

\* appendMessage(sender, content, { isHtml }): the row is appended to the chat
\* box; the element returned is the last one of the new chat box.
appendMessage(box, sender, content, isHtml) ==
    Append(box, [sender |-> sender, isHtml |-> isHtml, content |-> content])

\* element.textContent = t
SetTextContent(box, el, t) ==
    [box EXCEPT ![el] = [@ EXCEPT !.isHtml = FALSE, !.content = t]]

\* element.innerHTML = h
SetInnerHtml(box, el, h) ==
    [box EXCEPT ![el] = [@ EXCEPT !.isHtml = TRUE, !.content = h]]

setFormDisabled(isDisabled) ==
    /\ inputDisabled' = isDisabled
    /\ buttonDisabled' = isDisabled
    /\ buttonText' = IF isDisabled THEN "Sending..." ELSE "Send"

\* A slip: the listener does not look at the button.
SubmitRejectedEmptyOnly(userMessage) == userMessage = <<>>

\* A slip: the listener does not look at the message.
SubmitRejectedDisabledOnly(userMessage) == buttonDisabled

\* if (!userMessage || submitButton.disabled) return;
SubmitRejected(userMessage) == userMessage = <<>> \/ buttonDisabled

\* A slip: the error is logged and the placeholder is left as it is.
CatchBlockSilent(box, el) == box

\* catch (error) { ... }
CatchBlock(box, el) == SetTextContent(box, el, FailedText)

\* A slip: the answer is appended as a new bot row and the placeholder is
\* left as it is.
ShowDataAppended(box, el, data) ==
    IF HasResult(data)
    THEN appendMessage(box, "bot", markdownToHtml(data.result), TRUE)
    ELSE appendMessage(box, "bot", SorryText, FALSE)

\* if (data && data.result) { ... } else { ... }
ShowData(box, el, data) ==
    IF HasResult(data)
    THEN SetInnerHtml(box, el, markdownToHtml(data.result))
    ELSE SetTextContent(box, el, SorryText)

\* A slip: the form is re-enabled at the end of the try block, not in a
\* finally block, so that a call that ends in the catch block leaves it as
\* it is.
FinishWithoutFinally(h, box, outcome) ==
    /\ chatBox' = box
    /\ IF outcome \in {"result", "no result"}
       THEN setFormDisabled(FALSE)
       ELSE UNCHANGED << inputDisabled, buttonDisabled, buttonText >>
    /\ calls' = [calls EXCEPT ![h] = [@ EXCEPT !.at = "returned", !.outcome = outcome]]
    /\ UNCHANGED << inputValue, fetches >>

\* The end of call h of the listener: the chat box it leaves, the finally
\* block, and the return.
Finish(h, box, outcome) ==
    /\ chatBox' = box
    /\ setFormDisabled(FALSE)
    /\ calls' = [calls EXCEPT ![h] = [@ EXCEPT !.at = "returned", !.outcome = outcome]]
    /\ UNCHANGED << inputValue, fetches >>

\* The user, or a script, sets the value of the input.
SetInput ==
    /\ \E v \in InputValues : inputValue' = v
    /\ UNCHANGED << inputDisabled, buttonDisabled, buttonText, chatBox, calls, fetches >>
    /\ UNCHANGED mdVars

\* A submit event: the listener from its start to await fetch(...).
Submit ==
    LET userMessage == Trim(inputValue)
    IN  /\ SubmitRejected(userMessage) \/ Len(calls) < MaxSubmits
        /\ IF SubmitRejected(userMessage)
           THEN UNCHANGED chatVars
           ELSE /\ setFormDisabled(TRUE)
                /\ chatBox' = appendMessage(appendMessage(chatBox, "user", userMessage, FALSE),
                                            "bot", ThinkingText, FALSE)
                /\ inputValue' = <<>>
                /\ fetches' = Append(fetches, [role |-> "user", content |-> userMessage])
                /\ calls' = Append(calls, [thinkingMessageElement |-> Len(chatBox) + 2,
                                           at |-> "fetch", outcome |-> "pending"])
        /\ UNCHANGED mdVars

\* The request of call h fails: fetch rejects.
FetchRejects(h) ==
    /\ calls[h].at = "fetch"
    /\ Finish(h, CatchBlock(chatBox, calls[h].thinkingMessageElement), "network error")
    /\ UNCHANGED mdVars

\* The response of call h arrives; the listener goes on to read its body, as
\* text if (!response.ok), as JSON otherwise.
FetchResolves(h) ==
    /\ calls[h].at = "fetch"
    /\ \E ok \in BOOLEAN :
          calls' = [calls EXCEPT ![h] = [@ EXCEPT !.at = IF ok THEN "json" ELSE "text",
                                                  !.outcome = IF ok THEN "ok" ELSE "not ok"]]
    /\ UNCHANGED << inputValue, inputDisabled, buttonDisabled, buttonText, chatBox, fetches >>
    /\ UNCHANGED mdVars

\* response.text() settles, as the text or through .catch as the fallback
\* text; the listener throws its Error and catches it.
TextSettles(h) ==
    /\ calls[h].at = "text"
    /\ Finish(h, CatchBlock(chatBox, calls[h].thinkingMessageElement), "not ok")
    /\ UNCHANGED mdVars

\* response.json() rejects: the body is not JSON.
JsonRejects(h) ==
    /\ calls[h].at = "json"
    /\ Finish(h, CatchBlock(chatBox, calls[h].thinkingMessageElement), "malformed JSON")
    /\ UNCHANGED mdVars

\* response.json() resolves to data.
JsonResolves(h) ==
    /\ calls[h].at = "json"
    /\ \E data \in JsonValues :
          Finish(h, ShowData(chatBox, calls[h].thinkingMessageElement, data),
                 IF HasResult(data) THEN "result" ELSE "no result")
    /\ UNCHANGED mdVars

\* The converter is not running step by step while the page is modelled: the
\* listener calls markdownToHtml in one go.
MdIdle ==
    /\ text = <<>>
    /\ pc = "idle"
    /\ blocks = <<>>
    /\ bi = 1
    /\ html = <<>>
    /\ lines = <<>>
    /\ li = 1
    /\ resultHtml = <<>>
    /\ inList = "null"
    /\ paragraphContent = <<>>
    /\ result = <<>>

ChatInit == PageInit /\ MdIdle

ChatNext ==
    \/ SetInput
    \/ Submit
    \/ \E h \in 1..Len(calls) : FetchRejects(h)
    \/ \E h \in 1..Len(calls) : FetchResolves(h)
    \/ \E h \in 1..Len(calls) : TextSettles(h)
    \/ \E h \in 1..Len(calls) : JsonRejects(h)
    \/ \E h \in 1..Len(calls) : JsonResolves(h)

SpecChat == ChatInit /\ [][ChatNext]_vars

\* A promise the listener awaits settles: the request, or the reading of the
\* response body.
Settle ==
    \E h \in 1..Len(calls) :
        \/ FetchRejects(h)
        \/ FetchResolves(h)
        \/ TextSettles(h)
        \/ JsonRejects(h)
        \/ JsonResolves(h)

\* The page when every promise the listener awaits settles in the end.
FairSpecChat == SpecChat /\ WF_vars(Settle)

\* ------------------------------------------------- reading the output back

\* pat occurs somewhere in s.
HasSub(s, pat) == IndexOfFrom(s, pat, 1) > 0

\* The tag strings the converter inserts.
TagNames == {N_p, N_ul, N_ol, N_li, N_pre, N_code, N_strong, N_em}
            \cup {N_h(n) : n \in 1..6}

FixedTags == {OpenTag(n) : n \in TagNames} \cup {CloseTag(n) : n \in TagNames}
             \cup {OpenTag(N_hr), OpenTag(N_br)}

CodeClassOpen == <<"<">> \o N_code \o S_class

\* The length of the converter's tag that starts at s[i], 0 when none does:
\* a fixed tag, or <code class="language-WORD">.
TagLenAt(s, i) ==
    LET F == {t \in FixedTags : HasAt(s, t, i)}
        w == RunLen(s, i + Len(CodeClassOpen), WordChars)
    IN  IF F # {} THEN Len(CHOOSE t \in F : TRUE)
        ELSE IF /\ HasAt(s, CodeClassOpen, i)
                /\ w >= 1
                /\ HasAt(s, <<"\"", ">">>, i + Len(CodeClassOpen) + w)
             THEN Len(CodeClassOpen) + w + 2
             ELSE 0

Entities == {E_amp, E_lt, E_gt, E_quot, E_apos}

\* The length of the entity that starts at s[i], 0 when none does.
EntityLenAt(s, i) ==
    LET F == {e \in Entities : HasAt(s, e, i)}
    IN  IF F = {} THEN 0 ELSE Len(CHOOSE e \in F : TRUE)

\* Every '<' of s from position i on opens one of the converter's tags, every
\* '&' opens an entity, and no '>', double quote or apostrophe stands outside
\* of those.
RECURSIVE SafeFrom(_, _)
SafeFrom(s, i) ==
    LET t == TagLenAt(s, i)
        e == EntityLenAt(s, i)
    IN  IF i > Len(s) THEN TRUE
        ELSE IF s[i] = "<" THEN t > 0 /\ SafeFrom(s, i + t)
        ELSE IF s[i] = "&" THEN e > 0 /\ SafeFrom(s, i + e)
        ELSE IF s[i] \in {">", "\"", "'"} THEN FALSE
        ELSE SafeFrom(s, i + 1)

ScriptTag == <<"<", "s", "c", "r", "i", "p", "t", ">">>

\* The tags of s in order: each stretch from a '<' to the next '>'.
RECURSIVE TagsFrom(_, _)
TagsFrom(s, i) ==
    LET a == IndexOfFrom(s, <<"<">>, i)
        b == IF a = 0 THEN 0 ELSE IndexOfFrom(s, <<">">>, a)
    IN  IF b = 0 THEN <<>> ELSE << SubSeq(s, a, b) >> \o TagsFrom(s, b + 1)

Tags(s) == TagsFrom(s, 1)

\* The entities of s read back into the characters they stand for.
RECURSIVE Unescape(_)
Unescape(s) ==
    IF s = <<>> THEN <<>>
    ELSE IF HasAt(s, E_amp, 1) THEN <<"&">> \o Unescape(From(s, Len(E_amp) + 1))
    ELSE IF HasAt(s, E_lt, 1) THEN <<"<">> \o Unescape(From(s, Len(E_lt) + 1))
    ELSE IF HasAt(s, E_gt, 1) THEN <<">">> \o Unescape(From(s, Len(E_gt) + 1))
    ELSE IF HasAt(s, E_quot, 1) THEN <<"\"">> \o Unescape(From(s, Len(E_quot) + 1))
    ELSE IF HasAt(s, E_apos, 1) THEN <<"'">> \o Unescape(From(s, Len(E_apos) + 1))
    ELSE << Head(s) >> \o Unescape(Tail(s))

\* ------------------------------------------------------------------ claims

\* The fragments a state shows: those blocks.map holds when its callback has
\* just returned one.  The loop over the lines of the next block and the
\* final join leave them as they are, so each fragment ever returned is shown
\* by the state that follows its return.
Returned == IF pc = "block" THEN 1..Len(html) ELSE {}

\* C1: every '<', '>', '&', double quote and apostrophe of the output, and of
\* every fragment the callback has returned, belongs to a tag the converter
\* inserts or to an entity of escapeHtml; the output never holds the
\* substring <script>.
C1_OutputIsSafe ==
    /\ \A k \in Returned : SafeFrom(html[k], 1) /\ ~HasSub(html[k], ScriptTag)
    /\ SafeFrom(result, 1)
    /\ ~HasSub(result, ScriptTag)

\* An input with <script> in a single-line fence, in a heading and in a list
\* item has been converted.
C1_Witness ==
    /\ pc = "done"
    /\ HasSub(text, ScriptTag)
    /\ HasSub(result, OpenTag(N_pre))
    /\ HasSub(result, OpenTag(N_h(1)) \o E_lt)
    /\ HasSub(result, OpenTag(N_li) \o E_lt)

\* C4: in the loop over the lines a list is never open while the paragraph
\* buffer holds text, and once the loop has ended (the callback has returned,
\* or the conversion is done) no list is open and the buffer is empty.
C4_ListOrParagraph ==
    /\ ~(inList # "null" /\ paragraphContent # <<>>)
    /\ pc \in {"block", "done"} => inList = "null" /\ paragraphContent = <<>>

\* A list item has arrived after a paragraph: the paragraph is flushed and
\* the list is open.
C4_Witness ==
    /\ pc = "line"
    /\ inList = "ul"
    /\ HasAt(resultHtml, OpenTag(N_p), 1)
    /\ HasSub(resultHtml, CloseTag(N_p) \o OpenTag(N_ul))

\* The list that is open after the tags ts[i..], when open is the list open
\* before them; "bad" if an item stands outside a list, if a heading, a rule
\* or a paragraph stands inside one, if a list opens inside a list, or if a
\* closing tag does not close the list that is open.
RECURSIVE ListScan(_, _, _)
ListScan(ts, i, open) ==
    IF i > Len(ts) THEN open
    ELSE LET t == ts[i]
         IN  IF t \in {OpenTag(N_ul), OpenTag(N_ol)}
             THEN IF open = "null"
                  THEN ListScan(ts, i + 1, IF t = OpenTag(N_ul) THEN "ul" ELSE "ol")
                  ELSE "bad"
             ELSE IF t \in {CloseTag(N_ul), CloseTag(N_ol)}
             THEN IF open # "null" /\ t = CloseTag(ListTag(open))
                  THEN ListScan(ts, i + 1, "null")
                  ELSE "bad"
             ELSE IF t \in {OpenTag(N_li), CloseTag(N_li)}
             THEN IF open \in {"ul", "ol"} THEN ListScan(ts, i + 1, open) ELSE "bad"
             ELSE IF t \in {OpenTag(N_hr), OpenTag(N_p), CloseTag(N_p)}
                            \cup {OpenTag(N_h(n)) : n \in 1..6}
                            \cup {CloseTag(N_h(n)) : n \in 1..6}
             THEN IF open = "null" THEN ListScan(ts, i + 1, open) ELSE "bad"
             ELSE ListScan(ts, i + 1, open)

\* C5: in what the loop has emitted so far every <li> stands inside a list,
\* every heading, rule and paragraph outside of one, every closing list tag
\* closes the list that is open, and the list left open is the one inList
\* names; in every fragment the callback has returned no list is left open.
C5_ListsWellFormed ==
    /\ pc = "line" => ListScan(Tags(resultHtml), 1, "null") = inList
    /\ \A k \in Returned : ListScan(Tags(html[k]), 1, "null") = "null"

\* A heading line has arrived while a list was open: the list is closed
\* before the heading.
C5_Witness ==
    /\ pc = "line"
    /\ HasSub(resultHtml, CloseTag(N_li) \o CloseTag(N_ul) \o OpenTag(N_h(1)))

\* A fenced code segment: from an opening fence through the next fence.
IsFencedSegment(b) == Len(b) >= 6 /\ HasAt(b, Fence, 1) /\ HasAt(b, Fence, Len(b) - 2)

\* f is <pre>, one opening code tag, a body without tags, </code></pre>.
IsPreCode(f) ==
    LET ts == Tags(f)
    IN  /\ Len(ts) = 4
        /\ ts[1] = OpenTag(N_pre)
        /\ HasAt(ts[2], <<"<">> \o N_code, 1)
        /\ TagLenAt(ts[2], 1) = Len(ts[2])
        /\ ts[3] = CloseTag(N_code)
        /\ ts[4] = CloseTag(N_pre)
        /\ HasAt(f, ts[1] \o ts[2], 1)
        /\ HasAt(f, ts[3] \o ts[4], Len(f) - Len(ts[3]) - Len(ts[4]) + 1)

\* What stands between the opening code tag of f and its </code></pre>.
CodeBody(f) ==
    LET ts == Tags(f)
    IN  SubSeq(f, Len(ts[1]) + Len(ts[2]) + 1,
               Len(f) - Len(CloseTag(N_code)) - Len(CloseTag(N_pre)))

\* C6: a fenced code segment is rendered as one <pre><code ...>...</code></pre>
\* with no other tag in it, and its body, read back through the entities, is
\* the text between the fences after the word that follows the opening
\* fence, trimmed: nothing in it was taken for Markdown.
C6_FencedIsVerbatim ==
    \A k \in Returned :
        IsFencedSegment(blocks[k]) =>
            LET content == SubSeq(blocks[k], 4, Len(blocks[k]) - 3)
                w == RunLen(content, 1, WordChars)
            IN  /\ IsPreCode(html[k])
                /\ Unescape(CodeBody(html[k])) = Trim(From(content, w + 1))

\* A fenced segment with a heading line between its fences has been rendered.
C6_Witness ==
    \E k \in 1..Len(html) :
        /\ IsFencedSegment(blocks[k])
        /\ HasSub(blocks[k], <<"\n", "#", " ", "<">>)
        /\ HasSub(html[k], <<"#", " ">> \o E_lt)

\* C7, as claimed: a code block carries class="language-WORD" exactly when
\* word characters follow its opening fence, with or without a newline after
\* them, and the word is not part of the body.
C7_ClassIffWord ==
    \A k \in Returned :
        IsCodeBlock(blocks[k]) =>
            LET b == blocks[k]
                w == RunLen(b, 4, WordChars)
                word == SubSeq(b, 4, 3 + w)
            IN  /\ IsPreCode(html[k])
                /\ Tags(html[k])[2] =
                       IF w >= 1
                       THEN CodeClassOpen \o word \o <<"\"", ">">>
                       ELSE OpenTag(N_code)
                /\ Unescape(CodeBody(html[k])) = Trim(StripClosingFence(From(b, 4 + w)))

\* The kind of a line, by the first pattern that matches it.
LineKind(line) ==
    IF HeadingMatch(line).matched THEN "heading"
    ELSE IF RuleMatch(line).matched THEN "rule"
    ELSE IF UlMatch(line).matched THEN "ul"
    ELSE IF OlMatch(line).matched THEN "ol"
    ELSE IF Trim(line) # <<>> THEN "text"
    ELSE "blank"

\* The number of lines of kind k that follow one another from ls[i] on.
RECURSIVE KindRun(_, _, _)
KindRun(ls, i, k) ==
    IF i <= Len(ls) /\ LineKind(ls[i]) = k THEN 1 + KindRun(ls, i + 1, k) ELSE 0

\* The lines ls[a..b] formatted and joined by <br>.
RECURSIVE JoinBr(_, _, _)
JoinBr(ls, a, b) ==
    IF a = b THEN processInline(ls[a])
    ELSE processInline(ls[a]) \o OpenTag(N_br) \o JoinBr(ls, a + 1, b)

\* One <p> element for each maximal run of text lines from ls[i] on.
RECURSIVE ParagraphsOf(_, _)
ParagraphsOf(ls, i) ==
    IF i > Len(ls) THEN <<>>
    ELSE IF LineKind(ls[i]) # "text" THEN ParagraphsOf(ls, i + 1)
    ELSE LET r == KindRun(ls, i, "text")
         IN  << OpenTag(N_p) \o JoinBr(ls, i, i + r - 1) \o CloseTag(N_p) >>
             \o ParagraphsOf(ls, i + r)

\* The elements of f that open with tag open and end with tag close, from
\* position i on.
RECURSIVE ElementsFrom(_, _, _, _)
ElementsFrom(f, i, open, close) ==
    LET a == IndexOfFrom(f, open, i)
        b == IF a = 0 THEN 0 ELSE IndexOfFrom(f, close, a)
    IN  IF b = 0 THEN <<>>
        ELSE << SubSeq(f, a, b + Len(close) - 1) >>
             \o ElementsFrom(f, b + Len(close), open, close)

\* C8: in the fragment of an ordinary segment the <p> elements are, in order,
\* one for each maximal run of non-blank default lines, holding the run's
\* formatted lines joined by <br> (one fewer than lines); a blank line ends a
\* run, and no <p></p> is emitted.
C8_ParagraphPerRun ==
    \A k \in Returned :
        ~IsCodeBlock(blocks[k]) =>
            /\ ElementsFrom(html[k], 1, OpenTag(N_p), CloseTag(N_p))
                   = ParagraphsOf(BlockLines(blocks[k]), 1)
            /\ ~HasSub(html[k], OpenTag(N_p) \o CloseTag(N_p))

\* Two text lines in a row have been joined into one paragraph, after an
\* earlier paragraph that a blank line ended.
C8_Witness ==
    \E k \in 1..Len(html) :
        /\ ~IsCodeBlock(blocks[k])
        /\ Len(BlockLines(blocks[k])) >= 2
        /\ \A i \in 1..Len(BlockLines(blocks[k])) : LineKind(BlockLines(blocks[k])[i]) = "text"
        /\ HasSub(html[k], OpenTag(N_br))

\* The text of a list item line: the group its pattern captures.
ItemText(line) ==
    IF LineKind(line) = "ul" THEN UlMatch(line).groups[1] ELSE OlMatch(line).groups[1]

\* <li>...</li> for each of the lines ls[a..b].
RECURSIVE ItemsOf(_, _, _)
ItemsOf(ls, a, b) ==
    IF a > b THEN <<>>
    ELSE OpenTag(N_li) \o processInline(ItemText(ls[a])) \o CloseTag(N_li)
         \o ItemsOf(ls, a + 1, b)

\* One list element for each maximal run of item lines of one kind.
RECURSIVE ListsOf(_, _)
ListsOf(ls, i) ==
    IF i > Len(ls) THEN <<>>
    ELSE IF LineKind(ls[i]) \notin {"ul", "ol"} THEN ListsOf(ls, i + 1)
    ELSE LET kind == LineKind(ls[i])
             r == KindRun(ls, i, kind)
         IN  << OpenTag(ListTag(kind)) \o ItemsOf(ls, i, i + r - 1) \o CloseTag(ListTag(kind)) >>
             \o ListsOf(ls, i + r)

\* The list elements of f in order, each from its opening tag to the next
\* closing tag of its kind.
RECURSIVE ListElementsFrom(_, _)
ListElementsFrom(f, i) ==
    LET u == IndexOfFrom(f, OpenTag(N_ul), i)
        o == IndexOfFrom(f, OpenTag(N_ol), i)
        a == IF u = 0 THEN o ELSE IF o = 0 THEN u ELSE Min({u, o})
        close == IF a = u THEN CloseTag(N_ul) ELSE CloseTag(N_ol)
        b == IF a = 0 THEN 0 ELSE IndexOfFrom(f, close, a)
    IN  IF a = 0 THEN <<>>
        ELSE IF b = 0 THEN << From(f, a) >>
        ELSE << SubSeq(f, a, b + Len(close) - 1) >> \o ListElementsFrom(f, b + Len(close))

\* C9: in the fragment of an ordinary segment the list elements are, in
\* order, one for each maximal run of item lines of one kind, holding one
\* <li> for each line of the run in line order; a list is closed by the
\* closing tag of its own kind before a list of the other kind opens.
C9_ListPerRun ==
    \A k \in Returned :
        ~IsCodeBlock(blocks[k]) =>
            /\ ListElementsFrom(html[k], 1) = ListsOf(BlockLines(blocks[k]), 1)
            /\ ListScan(Tags(html[k]), 1, "null") = "null"

\* Two unordered items and then an ordered item have been rendered: one list
\* of two items, closed before the ordered list opens.
C9_Witness ==
    \E k \in 1..Len(html) :
        /\ Len(ListElementsFrom(html[k], 1)) = 2
        /\ Len(ElementsFrom(ListElementsFrom(html[k], 1)[1], 1, OpenTag(N_li), CloseTag(N_li))) = 2
        /\ HasSub(html[k], CloseTag(N_li) \o CloseTag(N_ul) \o OpenTag(N_ol) \o OpenTag(N_li))

\* C10: the conversion never reaches the state of a thrown exception, it
\* returns one fragment for each block, and the empty string is converted to
\* the empty string.
C10_Total ==
    /\ pc \in {"split", "block", "line", "done"}
    /\ pc = "block" => bi <= Len(blocks) + 1 /\ Len(html) = bi - 1
    /\ pc = "line" => li <= Len(lines) + 1 /\ bi <= Len(blocks)
    /\ pc = "done" => Len(html) = Len(blocks)
    /\ pc = "done" /\ text = <<>> => result = <<>>

\* A block that starts with a fence that is never closed, and whose language
\* pattern does not match, has been converted.
C10_Witness ==
    /\ pc = "done"
    /\ Len(blocks) = 1
    /\ IsCodeBlock(blocks[1])
    /\ ~IsFencedSegment(blocks[1])
    /\ ~LangMatch(blocks[1]).matched
    /\ IsPreCode(result)

\* The calls of the listener that wait for the network: each has one request
\* in flight (sent, or its body being read).
Pending == {h \in 1..Len(calls) : calls[h].at \in {"fetch", "text", "json"}}

\* The rows of the chat box that sender wrote.
RowsOf(sender) == {i \in 1..Len(chatBox) : chatBox[i].sender = sender}

\* At most one request is in flight, and the requests sent are one for each
\* submission that got past the guard: as many as the user rows of the chat
\* box, each carrying the message of its row.
OneFetchPerSubmission ==
    /\ Cardinality(Pending) <= 1
    /\ Len(fetches) = Len(calls)
    /\ Len(fetches) = Cardinality(RowsOf("user"))
    /\ \A h \in 1..Len(calls) :
          /\ calls[h].thinkingMessageElement = 2 * h
          /\ chatBox[2 * h - 1].sender = "user"
          /\ chatBox[2 * h - 1].content = fetches[h].content
          /\ fetches[h].content # <<>>

\* C2: two requests are never in flight at once and every accepted
\* submission has sent exactly one; a step taken while a request is in
\* flight (a submit event among them) sends no request.
C2_OneRequestInFlight ==
    /\ []OneFetchPerSubmission
    /\ [][Pending # {} => fetches' = fetches]_vars

\* A second request has been sent after the first one completed, and the
\* input holds the next message while that request is in flight.
C2_Witness ==
    /\ Len(fetches) = 2
    /\ Pending = {2}
    /\ Trim(inputValue) # <<>>

\* The outcomes of a call in which the request failed.
FailureOutcomes == {"network error", "not ok", "malformed JSON"}

\* C3: a call whose request failed (fetch rejected, a response that is not ok,
\* a body that is not JSON) has returned, with its placeholder showing the
\* error text as text, not as HTML; a call does not end in any other way
\* than by returning.
C3_FailureShowsError ==
    \A h \in 1..Len(calls) :
        /\ calls[h].at \in {"fetch", "text", "json", "returned"}
        /\ calls[h].at = "returned" /\ calls[h].outcome \in FailureOutcomes =>
              /\ chatBox[calls[h].thinkingMessageElement].content = FailedText
              /\ ~chatBox[calls[h].thinkingMessageElement].isHtml
              /\ chatBox[calls[h].thinkingMessageElement].sender = "bot"

\* Each of the three failures has happened to one call.
C3_Witness ==
    /\ Len(calls) = 3
    /\ {calls[h].outcome : h \in 1..Len(calls)} = FailureOutcomes
    /\ \A h \in 1..Len(calls) : calls[h].at = "returned"

\* ------------------------------------------------ reading inline spans back

\* The number of times the character c occurs in s.
RECURSIVE Count(_, _)
Count(s, c) ==
    IF s = <<>> THEN 0 ELSE (IF Head(s) = c THEN 1 ELSE 0) + Count(Tail(s), c)

\* The number of times pat occurs in s from position i on.
RECURSIVE Occurrences(_, _, _)
Occurrences(s, pat, i) ==
    LET a == IndexOfFrom(s, pat, i)
    IN  IF a = 0 THEN 0 ELSE 1 + Occurrences(s, pat, a + Len(pat))

\* s without the characters of S.
RECURSIVE Without(_, _)
Without(s, S) ==
    IF s = <<>> THEN <<>>
    ELSE (IF Head(s) \in S THEN <<>> ELSE <<Head(s)>>) \o Without(Tail(s), S)

\* The number of maximal runs of the character c in s.
Runs(s, c) ==
    Cardinality({i \in 1..Len(s) : s[i] = c /\ (i = 1 \/ s[i - 1] # c)})

\* a is b with some characters left out.
RECURSIVE IsSubsequence(_, _)
IsSubsequence(a, b) ==
    IF a = <<>> THEN TRUE
    ELSE IF b = <<>> THEN FALSE
    ELSE IF Head(a) = Head(b) THEN IsSubsequence(Tail(a), Tail(b))
    ELSE IsSubsequence(a, Tail(b))

InlineTags == {OpenTag(N_strong), CloseTag(N_strong), OpenTag(N_em), CloseTag(N_em),
               OpenTag(N_code), CloseTag(N_code)}

\* s without the tags processInline inserts.
RECURSIVE StripInlineTags(_, _)
StripInlineTags(s, i) ==
    LET F == {t \in InlineTags : HasAt(s, t, i)}
    IN  IF i > Len(s) THEN <<>>
        ELSE IF F # {} THEN StripInlineTags(s, i + Len(CHOOSE t \in F : TRUE))
        ELSE <<s[i]>> \o StripInlineTags(s, i + 1)

\* What the page shows of formatted text: the tags gone, the entities read back.
Shown(out) == Unescape(StripInlineTags(out, 1))

\* The loop has just formatted the only line of an ordinary block, a line of
\* running text, into the paragraph buffer.
OneLineFormatted ==
    /\ pc = "line"
    /\ li = 2
    /\ Len(lines) = 1
    /\ LineKind(lines[1]) = "text"

\* C11: of a formatted line every character that is not a delimiter is shown,
\* in order; the delimiters that are gone are the two of each em and code
\* span and the four of each strong span; and when the stars of the line (the
\* backticks of the line) form a single run, which nothing closes, no strong
\* or em tag (no code tag) is emitted and each of them is shown.
C11_UnmatchedKept ==
    OneLineFormatted =>
        LET line == lines[1]
            out == paragraphContent
            nStrong == Occurrences(out, OpenTag(N_strong), 1)
            nEm == Occurrences(out, OpenTag(N_em), 1)
            nCode == Occurrences(out, OpenTag(N_code), 1)
        IN  /\ IsSubsequence(Shown(out), line)
            /\ Without(Shown(out), {"*", Backtick}) = Without(line, {"*", Backtick})
            /\ Count(line, "*") - Count(Shown(out), "*") = 4 * nStrong + 2 * nEm
            /\ Count(line, Backtick) - Count(Shown(out), Backtick) = 2 * nCode
            /\ Runs(line, "*") <= 1 =>
                   /\ nStrong = 0
                   /\ nEm = 0
                   /\ Count(Shown(out), "*") = Count(line, "*")
            /\ Runs(line, Backtick) <= 1 =>
                   /\ nCode = 0
                   /\ Count(Shown(out), Backtick) = Count(line, Backtick)

\* A line with one star and one backtick, each followed by text, has been
\* formatted: it is shown as it was typed.
C11_Witness ==
    /\ OneLineFormatted
    /\ lines[1] = <<"*", "a", Backtick, "a">>
    /\ paragraphContent = lines[1]

\* --------------------------------------------------- reading entities back

\* The characters escapeHtml rewrites.
Specials == {"&", "<", ">", "\"", "'"}

\* The characters of S in s, in order.
RECURSIVE Only(_, _)
Only(s, S) ==
    IF s = <<>> THEN <<>>
    ELSE (IF Head(s) \in S THEN <<Head(s)>> ELSE <<>>) \o Only(Tail(s), S)

\* The character the entity at s[i] stands for, "?" when no entity starts there.
EntityCharAt(s, i) ==
    IF HasAt(s, E_amp, i) THEN "&"
    ELSE IF HasAt(s, E_lt, i) THEN "<"
    ELSE IF HasAt(s, E_gt, i) THEN ">"
    ELSE IF HasAt(s, E_quot, i) THEN "\""
    ELSE IF HasAt(s, E_apos, i) THEN "'"
    ELSE "?"

\* For each '&' of s from position i on, in order, the character its entity
\* stands for.
RECURSIVE EntityChars(_, _)
EntityChars(s, i) ==
    LET a == IndexOfFrom(s, <<"&">>, i)
    IN  IF a = 0 THEN <<>> ELSE <<EntityCharAt(s, a)>> \o EntityChars(s, a + 1)

\* C12: in every fragment the callback has returned, and in the output, the
\* '&' characters open, in order, exactly the entities of the '&', '<', '>',
\* double quotes and apostrophes of the segment (of the input): each of
\* these characters is encoded once and none twice; and in the output none
\* is left raw.
C12_EscapedOnce ==
    /\ \A k \in Returned : EntityChars(html[k], 1) = Only(blocks[k], Specials)
    /\ pc = "done" =>
          /\ EntityChars(result, 1) = Only(text, Specials)
          /\ SafeFrom(result, 1)

\* A paragraph line, a list item and a fenced body that each hold characters
\* to escape have been converted.
C12_Witness ==
    /\ pc = "done"
    /\ HasSub(result, OpenTag(N_p) \o E_lt)
    /\ HasSub(result, OpenTag(N_li) \o E_lt)
    /\ HasSub(result, OpenTag(N_code) \o E_lt)
    /\ HasSub(result, E_gt \o E_amp \o E_quot \o E_apos)

\* The position in s, from position i on, of the opening fence that no later
\* fence closes, 0 when every fence is closed: a fence opens a segment and the
\* next fence after it closes it.
RECURSIVE UnclosedFenceAt(_, _)
UnclosedFenceAt(s, i) ==
    LET a == IndexOfFrom(s, Fence, i)
        b == IF a = 0 THEN 0 ELSE IndexOfFrom(s, Fence, a + Len(Fence))
    IN  IF a = 0 THEN 0
        ELSE IF b = 0 THEN a
        ELSE UnclosedFenceAt(s, b + Len(Fence))

\* C13, as claimed: when an opening fence of the input has no later closing
\* fence, the last segment is the input from that fence to its end, and it is
\* rendered as one <pre><code ...>...</code></pre>, wherever the fence stands.
C13_UnclosedFenceIsCode ==
    pc = "done" /\ UnclosedFenceAt(text, 1) > 0 =>
        /\ blocks[Len(blocks)] = From(text, UnclosedFenceAt(text, 1))
        /\ IsPreCode(html[Len(html)])

\* From ts[i] on the tags come in pairs, an opening tag and at once its closing
\* tag: no element stands inside another.
RECURSIVE FlatFrom(_, _)
FlatFrom(ts, i) ==
    IF i > Len(ts) THEN TRUE
    ELSE /\ i + 1 <= Len(ts)
         /\ \E n \in {N_strong, N_em, N_code} :
                ts[i] = OpenTag(n) /\ ts[i + 1] = CloseTag(n)
         /\ FlatFrom(ts, i + 2)

\* C14, as claimed: in a formatted line no span stands inside the content of
\* another span, for what one rule has wrapped no later rule rewrites; so a
\* backtick span around *a* is a code element that holds the literal *a*.
C14_SpansNotRescanned ==
    OneLineFormatted =>
        /\ FlatFrom(Tags(paragraphContent), 1)
        /\ lines[1] = <<Backtick, "*", "a", "*", Backtick>> =>
               paragraphContent = OpenTag(N_code) \o <<"*", "a", "*">> \o CloseTag(N_code)

\* The list a fragment closes after line i of ls: line i is an item and the
\* next line, if any, is not an item of its kind.
EndsList(ls, i) ==
    /\ LineKind(ls[i]) \in {"ul", "ol"}
    /\ i = Len(ls) \/ LineKind(ls[i + 1]) # LineKind(ls[i])

\* In every returned fragment of an ordinary segment, as many lists are
\* closed as there are items after which the line that follows, blank or
\* not, is not an item of the same kind.
ListClosedAfterEachRun ==
    \A k \in Returned :
        ~IsCodeBlock(blocks[k]) =>
            LET ls == BlockLines(blocks[k])
            IN  Occurrences(html[k], CloseTag(N_ul), 1) + Occurrences(html[k], CloseTag(N_ol), 1)
                    = Cardinality({i \in 1..Len(ls) : EndsList(ls, i)})

\* C15: the iteration of the loop on a line that is no heading, rule or list
\* item, blank or not, while a list is open appends the closing tag of the
\* list and nothing else to the fragment and leaves no list open; a non-blank
\* line then starts the paragraph buffer and a blank line leaves it empty.
\* So the lists closed in a fragment are one for each run of items, and items
\* that a blank line separates stand in two lists.
C15_DefaultLineClosesList ==
    /\ []ListClosedAfterEachRun
    /\ [][(/\ pc = "line"
           /\ li <= Len(lines)
           /\ li' = li + 1
           /\ inList # "null"
           /\ LineKind(lines[li]) \in {"text", "blank"})
          => /\ inList' = "null"
             /\ resultHtml' = resultHtml \o CloseTag(ListTag(inList))
             /\ paragraphContent' = IF LineKind(lines[li]) = "text"
                                    THEN processInline(lines[li])
                                    ELSE <<>>]_vars

\* Two unordered items with a blank line between them have been rendered as
\* two lists of one item each.
C15_Witness ==
    \E k \in 1..Len(html) :
        LET ls == BlockLines(blocks[k])
        IN  /\ ~IsCodeBlock(blocks[k])
            /\ Len(ls) = 3
            /\ LineKind(ls[1]) = "ul"
            /\ LineKind(ls[2]) = "blank"
            /\ LineKind(ls[3]) = "ul"
            /\ Len(ListElementsFrom(html[k], 1)) = 2
            /\ HasSub(html[k], CloseTag(N_ul) \o OpenTag(N_ul))

\* The form is enabled: input and button, and the button reads Send.
FormEnabled == ~inputDisabled /\ ~buttonDisabled /\ buttonText = "Send"

\* The form is disabled: input and button, and the button reads Sending...
FormDisabled == inputDisabled /\ buttonDisabled /\ buttonText = "Sending..."

\* The form is disabled in exactly the states where a request is pending, and
\* enabled in all the others.
DisabledIffPending == IF Pending # {} THEN FormDisabled ELSE FormEnabled

\* C16: the form is disabled exactly while a request is pending, and when the
\* promises the listener awaits settle, a disabled form is enabled again in
\* the end, whatever the outcome of the request.
C16_FormReenabled ==
    /\ []DisabledIffPending
    /\ FormDisabled ~> FormEnabled

\* Two calls of the listener have returned, one with a result and one after
\* a network error, and the form is enabled again.
C16_Witness ==
    /\ FormEnabled
    /\ \E h \in 1..Len(calls) : calls[h].outcome = "result"
    /\ \E h \in 1..Len(calls) : calls[h].outcome = "network error"
    /\ \A h \in 1..Len(calls) : calls[h].at = "returned"

\* Row i of the chat box is a bot row that still shows the placeholder text.
IsThinking(i) ==
    /\ chatBox[i].sender = "bot"
    /\ ~chatBox[i].isHtml
    /\ chatBox[i].content = ThinkingText

\* The rows alternate user, bot from a user row on, two rows for each call of
\* the listener that got past the guard; the bot row of a call that has
\* returned shows no placeholder text, so that only the last row can.
RowsAlternate ==
    /\ Len(chatBox) = 2 * Len(calls)
    /\ \A i \in 1..Len(chatBox) :
          /\ chatBox[i].sender = IF i % 2 = 1 THEN "user" ELSE "bot"
          /\ IsThinking(i) => i = Len(chatBox)
    /\ \A h \in 1..Len(calls) :
          /\ calls[h].thinkingMessageElement = 2 * h
          /\ IsThinking(2 * h) <=> calls[h].at # "returned"

\* The step appends a user row and a placeholder row for a new call and
\* leaves the rows there were as they are.
AppendsPair ==
    /\ Len(calls') = Len(calls) + 1
    /\ Len(chatBox') = Len(chatBox) + 2
    /\ SubSeq(chatBox', 1, Len(chatBox)) = chatBox
    /\ chatBox'[Len(chatBox) + 1].sender = "user"
    /\ chatBox'[Len(chatBox) + 2] =
           [sender |-> "bot", isHtml |-> FALSE, content |-> ThinkingText]

\* The step is the return of call h, which writes into its own placeholder,
\* until then untouched, and into no other row.
WritesOwnPlaceholder(h) ==
    /\ calls[h].at # "returned"
    /\ calls'[h].at = "returned"
    /\ Len(chatBox') = Len(chatBox)
    /\ IsThinking(calls[h].thinkingMessageElement)
    /\ chatBox'[calls[h].thinkingMessageElement] # chatBox[calls[h].thinkingMessageElement]
    /\ \A i \in 1..Len(chatBox) :
          i # calls[h].thinkingMessageElement => chatBox'[i] = chatBox[i]

\* C17: the rows of the chat box alternate user, bot, ... from a user row on,
\* and only the last row can show the placeholder text; a step that changes
\* the chat box either appends one user row and one placeholder row for a
\* newly accepted submission, or is the return of one call, which writes into
\* the placeholder of its own submission and nowhere else; a call returns
\* once, and never without that write.
C17_RowsAlternate ==
    /\ []RowsAlternate
    /\ [][/\ chatBox' # chatBox =>
                \/ AppendsPair
                \/ \E h \in 1..Len(calls) : WritesOwnPlaceholder(h)
          /\ \A h \in 1..Len(calls) :
                /\ calls[h].at = "returned" => calls'[h] = calls[h]
                /\ calls[h].at # "returned" /\ calls'[h].at = "returned" =>
                       WritesOwnPlaceholder(h)]_vars

\* Two calls have returned, one having written HTML and one the error text,
\* and a third waits with its placeholder in the last row.
C17_Witness ==
    /\ Len(chatBox) = 6
    /\ chatBox[2].isHtml
    /\ chatBox[4].content = FailedText
    /\ IsThinking(6)

\* The guard of the listener rejects a submit event in this state: the
\* trimmed input is empty, or the button is disabled.
GuardRejects == Trim(inputValue) = <<>> \/ buttonDisabled

\* C18: a submit event in a state where the guard rejects it changes nothing
\* of the page: no row is appended, no request is sent, the input keeps its
\* value and the form its disabled state; and no step at all taken from such
\* a state appends a row, sends a request or starts a call of the listener
\* past its guard.
C18_RejectedSubmitChangesNothing ==
    /\ [][GuardRejects /\ Submit =>
              /\ chatBox' = chatBox
              /\ fetches' = fetches
              /\ calls' = calls
              /\ inputValue' = inputValue
              /\ inputDisabled' = inputDisabled
              /\ buttonDisabled' = buttonDisabled
              /\ buttonText' = buttonText]_vars
    /\ [][GuardRejects =>
              /\ Len(chatBox') = Len(chatBox)
              /\ fetches' = fetches
              /\ Len(calls') = Len(calls)]_vars

\* After one call has returned, a second one waits for its response body,
\* so that the button is disabled, and a message stands in the input: a
\* submit event here is rejected for the button alone.
C18_Witness ==
    /\ buttonDisabled
    /\ Trim(inputValue) # <<>>
    /\ Len(calls) = 2
    /\ calls[1].at = "returned"
    /\ calls[2].at = "json"

\* The name of the tag t: p of <p>, code of </code> and of <code class=...>.
TagNameOf(t) ==
    LET a == IF Len(t) >= 2 /\ t[2] = "/" THEN 3 ELSE 2
    IN  SubSeq(t, a, a + RunLen(t, a, WordChars) - 1)

IsClosingTag(t) == Len(t) >= 2 /\ t[2] = "/"

\* The tags ts[i..] are balanced given the stack of the names of the elements
\* that are open: a closing tag closes the element opened last, and at the
\* end no element is open.  <hr> and <br> open no element.
RECURSIVE NestedFrom(_, _, _)
NestedFrom(ts, i, open) ==
    IF i > Len(ts) THEN open = <<>>
    ELSE IF TagNameOf(ts[i]) \in {N_hr, N_br} THEN NestedFrom(ts, i + 1, open)
    ELSE IF IsClosingTag(ts[i])
    THEN /\ open # <<>>
         /\ open[Len(open)] = TagNameOf(ts[i])
         /\ NestedFrom(ts, i + 1, SubSeq(open, 1, Len(open) - 1))
    ELSE NestedFrom(ts, i + 1, Append(open, TagNameOf(ts[i])))

\* C19, as claimed: in the output of every conversion each opening tag has
\* its closing tag and the elements close in the reverse of the order they
\* were opened in, the spans of a line on which a star span and a backtick
\* span cross included.
C19_TagsNested ==
    pc = "done" => NestedFrom(Tags(result), 1, <<>>)

====
